---- MODULE Spec2Model ----
(***************************************************************************)
(* Model of src/code/escherichia_stxtyper.py: the Kleborate module that    *)
(* wraps the STXTyper command-line tool.                                   *)
(*                                                                         *)
(* Text (a Python str) is a sequence of one-character strings, so that     *)
(* strip, split, splitlines, startswith, Path and str(int) are computed    *)
(* character by character as Python computes them.  Dictionary keys that   *)
(* are header names are TLA+ strings: the code never takes them apart.     *)
(***************************************************************************)
EXTENDS Integers, Sequences, FiniteSets, TLC

\* ------------------------------------------------------------------------
\* Python text operations
\* ------------------------------------------------------------------------

\* The characters str.strip() removes (those of the model's alphabet).
Whitespace == {" ", "\t", "\n", "\r"}

\* The characters str.splitlines() breaks at (those of the model's alphabet).
LineBreaks == {"\n", "\r"}

Min(a, b) == IF a <= b THEN a ELSE b

RECURSIVE LStrip(_)
\* str.lstrip(): drop leading whitespace.
LStrip(s) ==
    IF s # <<>> /\ Head(s) \in Whitespace THEN LStrip(Tail(s)) ELSE s

RECURSIVE RStrip(_)
\* str.rstrip(): drop trailing whitespace.
RStrip(s) ==
    IF s # <<>> /\ s[Len(s)] \in Whitespace
    THEN RStrip(SubSeq(s, 1, Len(s) - 1))
    ELSE s

\* str.strip()
Strip(s) == RStrip(LStrip(s))

\* str.startswith(c) for a one-character prefix.
StartsWith(s, c) == s # <<>> /\ Head(s) = c

RECURSIVE SplitFrom(_, _, _, _)
SplitFrom(s, sep, cur, acc) ==
    IF s = <<>> THEN Append(acc, cur)
    ELSE IF Head(s) = sep THEN SplitFrom(Tail(s), sep, <<>>, Append(acc, cur))
    ELSE SplitFrom(Tail(s), sep, Append(cur, Head(s)), acc)

\* str.split(sep) for a one-character separator: every separator ends a
\* field, empty fields are kept, the empty text gives one empty field.
Split(s, sep) == SplitFrom(s, sep, <<>>, <<>>)

RECURSIVE SplitLinesFrom(_, _, _)
SplitLinesFrom(s, cur, acc) ==
    IF s = <<>> THEN (IF cur = <<>> THEN acc ELSE Append(acc, cur))
    ELSE IF Head(s) = "\r" /\ Len(s) >= 2 /\ s[2] = "\n"
         THEN SplitLinesFrom(Tail(Tail(s)), <<>>, Append(acc, cur))
    ELSE IF Head(s) \in LineBreaks
         THEN SplitLinesFrom(Tail(s), <<>>, Append(acc, cur))
    ELSE SplitLinesFrom(Tail(s), Append(cur, Head(s)), acc)

\* str.splitlines(): break at \n, \r and \r\n; the breaks are dropped and a
\* final break opens no empty last line.
SplitLines(s) == SplitLinesFrom(s, <<>>, <<>>)

RECURSIVE Join(_, _)
\* sep.join(parts)
Join(parts, sep) ==
    IF parts = <<>> THEN <<>>
    ELSE IF Len(parts) = 1 THEN parts[1]
    ELSE parts[1] \o sep \o Join(Tail(parts), sep)

RECURSIVE RFind(_, _)
\* str.rfind(c), 1-based; 0 when c does not occur.
RFind(s, c) ==
    IF s = <<>> THEN 0
    ELSE IF s[Len(s)] = c THEN Len(s)
    ELSE RFind(SubSeq(s, 1, Len(s) - 1), c)

Digits == <<"0", "1", "2", "3", "4", "5", "6", "7", "8", "9">>

RECURSIVE NatToStr(_)
NatToStr(n) ==
    IF n < 10 THEN <<Digits[n + 1]>>
    ELSE Append(NatToStr(n \div 10), Digits[(n % 10) + 1])

\* str(n) for a Python int.
IntToStr(n) == IF n < 0 THEN <<"-">> \o NatToStr(0 - n) ELSE NatToStr(n)

\* ------------------------------------------------------------------------
\* pathlib.Path, on a POSIX host
\* ------------------------------------------------------------------------

\* The components of Path(p) below its root: empty and "." components drop.
PathParts(p) ==
    SelectSeq(Split(p, "/"), LAMBDA part : part # <<>> /\ part # <<".">>)

\* The root of Path(p): "/" for a leading slash, "//" for exactly two.
PathRoot(p) ==
    IF ~StartsWith(p, "/") THEN <<>>
    ELSE IF Len(p) >= 2 /\ p[2] = "/" /\ ~(Len(p) >= 3 /\ p[3] = "/")
         THEN <<"/", "/">>
    ELSE <<"/">>

\* str(Path(p)): what the subprocess receives for a Path argument.
PathStr(p) ==
    LET text == PathRoot(p) \o Join(PathParts(p), <<"/">>)
    IN  IF text = <<>> THEN <<".">> ELSE text

\* Path(p).name: the final component.
PathName(p) ==
    LET parts == PathParts(p)
    IN  IF parts = <<>> THEN <<>> ELSE parts[Len(parts)]

\* Path(p).stem: the name without its last suffix.
PathStem(p) ==
    LET name == PathName(p)
        i == RFind(name, ".")
    IN  IF 1 < i /\ i < Len(name) THEN SubSeq(name, 1, i - 1) ELSE name

\* ------------------------------------------------------------------------
\* The module's pure functions
\* ------------------------------------------------------------------------

\* get_headers(): the 16 column names of one result record.
get_headers ==
    << "Assembly", "target_contig", "stx_type", "operon", "identity",
       "target_start", "target_stop", "target_strand",
       "A_reference", "A_identity", "A_reference_subtype", "A_coverage",
       "B_reference", "B_reference_subtype", "B_identity", "B_coverage" >>

\* The position of a column name in get_headers().
HeaderIndex(h) == CHOOSE i \in 1..Len(get_headers) : get_headers[i] = h

\* The executable's name, as text.
Stxtyper == <<"s", "t", "x", "t", "y", "p", "e", "r">>

\* BuildCmd with the 'if quiet' branch lost: '-q' is never appended.
BuildCmdWithoutQuiet(nucleotide_file, threads, quiet) ==
    << Stxtyper,
       <<"-", "n">>, PathStr(nucleotide_file),
       <<"-", "o">>, <<"/", "d", "e", "v", "/", "s", "t", "d", "o", "u", "t">>,
       <<"-", "-", "t", "h", "r", "e", "a", "d", "s">>, IntToStr(threads) >>

\* run_stxtyper's cmd list: the argument vector handed to subprocess.run.
BuildCmd(nucleotide_file, threads, quiet) ==
    << Stxtyper,
       <<"-", "n">>, PathStr(nucleotide_file),
       <<"-", "o">>, <<"/", "d", "e", "v", "/", "s", "t", "d", "o", "u", "t">>,
       <<"-", "-", "t", "h", "r", "e", "a", "d", "s">>, IntToStr(threads) >>
    \o (IF quiet THEN << <<"-", "q">> >> ELSE <<>>)

\* SkipLine testing 'not line' instead of 'not line.strip()': a
\* whitespace-only line is no longer skipped.
SkipLineUnstripped(line) == StartsWith(line, "#") \/ line = <<>>

\* get_results, line 119: the lines the loop skips.
SkipLine(line) == StartsWith(line, "#") \/ Strip(line) = <<>>

\* get_results, line 121: parts = line.strip().split('\t')
LineParts(line) == Split(Strip(line), "\t")

\* get_results, lines 122-123: zip(full_headers[1:], parts) stops at the
\* shorter of the two; then row_dict['Assembly'] = assembly_path.stem.
RowDict(stem, line) ==
    LET parts == LineParts(line)
        n == Min(Len(get_headers) - 1, Len(parts))
        keys == {get_headers[i + 1] : i \in 1..n}
    IN  [h \in keys \cup {"Assembly"} |->
            IF h = "Assembly" THEN stem ELSE parts[HeaderIndex(h) - 1]]

\* get_results, line 126: the subscripts row_dict['target_contig'] and
\* row_dict['stx_type'] raise KeyError for a column the zip did not reach.
RowKeyRaises(row) ==
    "target_contig" \notin DOMAIN row \/ "stx_type" \notin DOMAIN row

\* get_results, line 126: f"{stem}_{target_contig}_{stx_type}"
FormatKey(stem, contig, type) == stem \o <<"_">> \o contig \o <<"_">> \o type

RowKey(stem, row) == FormatKey(stem, row["target_contig"], row["stx_type"])

\* The empty dict.
EmptyDict == [k \in {} |-> <<>>]

\* StoreRow as combined_results.setdefault(key, row_dict): the first record
\* of a key is kept.
StoreRowKeepFirst(combined, key, row) ==
    [k \in DOMAIN combined \cup {key} |->
        IF k \in DOMAIN combined THEN combined[k] ELSE row]

\* get_results, line 127: combined_results[key] = row_dict
StoreRow(combined, key, row) ==
    [k \in DOMAIN combined \cup {key} |-> IF k = key THEN row ELSE combined[k]]

RECURSIVE ParseLines(_, _, _)
\* get_results, lines 118-127: the loop over output.splitlines().  The
\* result says whether line 126 raised KeyError and holds the dict as the
\* loop left it.
ParseLines(stem, lines, combined) ==
    IF lines = <<>> THEN [raised |-> FALSE, combined |-> combined]
    ELSE IF SkipLine(Head(lines)) THEN ParseLines(stem, Tail(lines), combined)
    ELSE LET row == RowDict(stem, Head(lines))
         IN  IF RowKeyRaises(row)
             THEN [raised |-> TRUE, combined |-> combined]
             ELSE ParseLines(stem, Tail(lines),
                             StoreRow(combined, RowKey(stem, row), row))

\* ------------------------------------------------------------------------
\* Bounds and inputs
\* ------------------------------------------------------------------------

\* The longest batch of assemblies handed to get_results.
MaxAssemblies == 2

\* check_cli_options is tried with every thread count in -MaxThreads..MaxThreads.
MaxThreads == 12

\* add_cli_options, line 52: the default of --threads.
DefaultThreads == 8

\* The assembly paths a batch is drawn from: two files with the same stem in
\* different directories, and one that Path() normalises and whose name
\* holds two dots.
AssemblyPaths ==
    { <<"s", ".", "f", "a">>,
      <<"d", "/", "s", ".", "f", "a">>,
      <<".", "/", "t", ".", "x", ".", "f", "a">> }

RECURSIVE SeqsUpTo(_, _)
\* The sequences over S of length at most n.
SeqsUpTo(S, n) ==
    IF n = 0 THEN {<<>>}
    ELSE LET shorter == SeqsUpTo(S, n - 1)
         IN  shorter \cup {Append(q, x) : q \in shorter, x \in S}

Letters ==
    << "k", "x", "o", "i", "b", "e", "g", "A", "j", "r", "c", "B", "u", "w",
       "v", "z" >>

\* An output row with one one-letter field per header after 'Assembly'.
FullRow == [i \in 1..(Len(get_headers) - 1) |-> <<Letters[i]>>]

\* An output row with one field more than the tool's table has columns.
LongRow == [i \in 1..Len(get_headers) |-> <<Letters[i]>>]

Tab == <<"\t">>

\* The tables the tool may print, as lists of lines: no line at all; the
\* '#' header line and a full row; two rows whose contig and type differ but
\* whose composite key is the same, around an empty line; a row with that
\* key again and a row of two fields; an overlong row, a whitespace-only line and a row whose last
\* field is empty; a row of one field; a row whose first field is empty, a
\* '#' line and a row whose second field is empty.
OutputLineLists ==
    { <<>>,
      << <<"#", "h">>, Join(FullRow, Tab) >>,
      << <<"a", "_", "b", "\t", "c", "\t", "x">>,
         <<>>,
         <<"a", "\t", "b", "_", "c", "\t", "y">> >>,
      << <<"a", "\t", "b", "_", "c", "\t", "z">>,
         <<"k", "\t", "x">> >>,
      << Join(LongRow, Tab),
         <<" ", "\t">>,
         <<"a", "\t", "c", "\t", "o", "\t">> >>,
      << <<"a">> >>,
      << <<"\t", "a", "\t", "b">>,
         <<"#", "h">>,
         <<"a", "\t", "\t", "o">> >> }

RECURSIVE EndLines(_, _)
\* Text in which every line of the list is followed by the line end eol.
EndLines(lines, eol) ==
    IF lines = <<>> THEN <<>>
    ELSE Head(lines) \o eol \o EndLines(Tail(lines), eol)

\* What subprocess.run may capture from the tool's standard output: each
\* table with "\n" line ends, and the full-row table also with "\r\n".
ToolOutputs ==
    {EndLines(ls, <<"\n">>) : ls \in OutputLineLists}
    \cup {EndLines(<< <<"#", "h">>, Join(FullRow, Tab) >>, <<"\r", "\n">>)}

\* ------------------------------------------------------------------------
\* State
\* ------------------------------------------------------------------------

VARIABLES
    assemblies,       \* get_results' argument: the sequence of assembly paths
    args,             \* the parsed options: [threads, quiet]
    onPath,           \* whether shutil.which('stxtyper') finds the executable
    call,             \* the function of the module the host called last
    pc,               \* where the process is
    exc,              \* the exception that ended the call, or "none"
    message,          \* the exception's message, or ""
    result,           \* [returned, value]: what the last call returned
    idx,              \* get_results: the assemblies the loop has started on
    outstanding,      \* the tool subprocesses started and not yet exited
    invocations,      \* the argument vectors handed to subprocess.run so far
    runs,             \* per finished subprocess: [returncode, stdout]
    output,           \* run_stxtyper's return value for the current assembly
    merged,           \* the assemblies whose output lines have been merged
    combined_results  \* get_results' dict

vars ==
    << assemblies, args, onPath, call, pc, exc, message, result, idx,
       outstanding, invocations, runs, output, merged, combined_results >>

NoResult == [returned |-> FALSE, value |-> <<>>]

\* The variables of get_results before it is called.
NotStarted ==
    /\ idx = 0
    /\ outstanding = 0
    /\ invocations = <<>>
    /\ runs = <<>>
    /\ output = <<>>
    /\ merged = 0
    /\ combined_results = EmptyDict

\* A process that has called nothing yet.
Fresh ==
    /\ call = "none"
    /\ pc = "idle"
    /\ exc = "none"
    /\ message = ""
    /\ result = NoResult
    /\ NotStarted

\* A host about to call get_results on a batch.
Init ==
    /\ assemblies \in SeqsUpTo(AssemblyPaths, MaxAssemblies)
    /\ args \in [threads : {DefaultThreads, MaxThreads}, quiet : BOOLEAN]
    /\ onPath \in BOOLEAN
    /\ Fresh

\* A host about to validate its options and its environment.
InitCli ==
    /\ assemblies = <<>>
    /\ args \in [threads : (0 - MaxThreads)..MaxThreads, quiet : BOOLEAN]
    /\ onPath \in BOOLEAN
    /\ Fresh

\* ------------------------------------------------------------------------
\* check_cli_options and check_external_programs
\* ------------------------------------------------------------------------

\* check_cli_options without its lookup of the executable.
check_cli_options_NoLookup ==
    /\ pc = "idle"
    /\ call' = "check_cli_options"
    /\ IF args.threads < 1
       THEN /\ pc' = "raised"
            /\ exc' = "ValueError"
            /\ message' = "The number of threads must be at least 1."
            /\ result' = NoResult
       ELSE /\ pc' = "idle"
            /\ exc' = "none"
            /\ message' = ""
            /\ result' = [returned |-> TRUE, value |-> <<>>]
    /\ UNCHANGED << assemblies, args, onPath, idx, outstanding, invocations,
                    runs, output, merged, combined_results >>

\* check_cli_options with its two tests in the other order.
check_cli_options_LookupFirst ==
    /\ pc = "idle"
    /\ call' = "check_cli_options"
    /\ IF ~onPath
       THEN /\ pc' = "exited"
            /\ exc' = "SystemExit"
            /\ message' = "Error: STXTyper is not installed or not in PATH."
            /\ result' = NoResult
       ELSE IF args.threads < 1
       THEN /\ pc' = "raised"
            /\ exc' = "ValueError"
            /\ message' = "The number of threads must be at least 1."
            /\ result' = NoResult
       ELSE /\ pc' = "idle"
            /\ exc' = "none"
            /\ message' = ""
            /\ result' = [returned |-> TRUE, value |-> <<>>]
    /\ UNCHANGED << assemblies, args, onPath, idx, outstanding, invocations,
                    runs, output, merged, combined_results >>

\* check_cli_options(args): the thread count is tested first (ValueError),
\* then the executable is looked up (sys.exit); otherwise it returns None.
check_cli_options ==
    /\ pc = "idle"
    /\ call' = "check_cli_options"
    /\ IF args.threads < 1
       THEN /\ pc' = "raised"
            /\ exc' = "ValueError"
            /\ message' = "The number of threads must be at least 1."
            /\ result' = NoResult
       ELSE IF ~onPath
       THEN /\ pc' = "exited"
            /\ exc' = "SystemExit"
            /\ message' = "Error: STXTyper is not installed or not in PATH."
            /\ result' = NoResult
       ELSE /\ pc' = "idle"
            /\ exc' = "none"
            /\ message' = ""
            /\ result' = [returned |-> TRUE, value |-> <<>>]
    /\ UNCHANGED << assemblies, args, onPath, idx, outstanding, invocations,
                    runs, output, merged, combined_results >>

\* check_external_programs(): sys.exit when the executable is not found,
\* otherwise the list ['stxtyper'].
check_external_programs ==
    /\ pc = "idle"
    /\ call' = "check_external_programs"
    /\ IF ~onPath
       THEN /\ pc' = "exited"
            /\ exc' = "SystemExit"
            /\ message' = "Error: could not find STXTyper executable."
            /\ result' = NoResult
       ELSE /\ pc' = "idle"
            /\ exc' = "none"
            /\ message' = ""
            /\ result' = [returned |-> TRUE, value |-> <<Stxtyper>>]
    /\ UNCHANGED << assemblies, args, onPath, idx, outstanding, invocations,
                    runs, output, merged, combined_results >>

\* ------------------------------------------------------------------------
\* get_results and run_stxtyper
\* ------------------------------------------------------------------------

\* get_results, lines 104-105: the call starts with an empty dict.
EnterGetResults ==
    /\ pc = "idle"
    /\ call = "none"
    /\ call' = "get_results"
    /\ pc' = "loop"
    /\ combined_results' = EmptyDict
    /\ UNCHANGED << assemblies, args, onPath, exc, message, result, idx,
                    outstanding, invocations, runs, output, merged >>

\* run_stxtyper started for the next assembly while the output of the
\* previous one is still to be merged.
run_stxtyper_BeforeMerge ==
    /\ pc \in {"loop", "parsing"}
    /\ idx < Len(assemblies)
    /\ idx' = idx + 1
    /\ invocations' =
           Append(invocations,
                  BuildCmd(assemblies[idx + 1], args.threads, args.quiet))
    /\ IF onPath
       THEN /\ outstanding' = outstanding + 1
            /\ pc' = "waiting"
            /\ UNCHANGED exc
       ELSE /\ pc' = "raised"
            /\ exc' = "FileNotFoundError"
            /\ UNCHANGED outstanding
    /\ UNCHANGED << assemblies, args, onPath, call, message, result, runs,
                    output, merged, combined_results >>

\* The loop takes the next assembly and run_stxtyper hands its cmd to
\* subprocess.run, which starts the tool, or raises FileNotFoundError when
\* there is no such executable (run_stxtyper catches CalledProcessError only).
run_stxtyper ==
    /\ pc = "loop"
    /\ idx < Len(assemblies)
    /\ idx' = idx + 1
    /\ invocations' =
           Append(invocations,
                  BuildCmd(assemblies[idx + 1], args.threads, args.quiet))
    /\ IF onPath
       THEN /\ outstanding' = outstanding + 1
            /\ pc' = "waiting"
            /\ UNCHANGED exc
       ELSE /\ pc' = "raised"
            /\ exc' = "FileNotFoundError"
            /\ UNCHANGED outstanding
    /\ UNCHANGED << assemblies, args, onPath, call, message, result, runs,
                    output, merged, combined_results >>

\* The tool exits with status 0: run_stxtyper returns its captured stdout.
ToolExitsZero ==
    /\ pc = "waiting"
    /\ \E out \in ToolOutputs :
          /\ output' = out
          /\ runs' = Append(runs, [returncode |-> 0, stdout |-> out])
    /\ outstanding' = outstanding - 1
    /\ pc' = "parsing"
    /\ UNCHANGED << assemblies, args, onPath, call, exc, message, result, idx,
                    invocations, merged, combined_results >>

\* A non-zero exit that is swallowed: the loop goes on to the next assembly.
ToolExitsNonZero_Continues ==
    /\ pc = "waiting"
    /\ runs' = Append(runs, [returncode |-> 1, stdout |-> <<>>])
    /\ outstanding' = outstanding - 1
    /\ pc' = "loop"
    /\ merged' = merged + 1
    /\ UNCHANGED << assemblies, args, onPath, call, exc, message, result, idx,
                    invocations, output, combined_results >>

\* The tool exits with another status: check=True raises CalledProcessError
\* and run_stxtyper calls sys.exit with a message that embeds it.
ToolExitsNonZero ==
    /\ pc = "waiting"
    /\ runs' = Append(runs, [returncode |-> 1, stdout |-> <<>>])
    /\ outstanding' = outstanding - 1
    /\ pc' = "exited"
    /\ exc' = "SystemExit"
    /\ message' = "Error running STXTyper: "
    /\ UNCHANGED << assemblies, args, onPath, call, result, idx, invocations,
                    output, merged, combined_results >>

\* get_results, lines 118-127: the lines of the captured output are merged
\* into the dict, or line 126 raises KeyError and the call ends.
MergeOutput ==
    /\ pc = "parsing"
    /\ LET parsed == ParseLines(PathStem(assemblies[idx]), SplitLines(output),
                                combined_results)
       IN  /\ combined_results' = parsed.combined
           /\ IF parsed.raised
              THEN /\ pc' = "raised"
                   /\ exc' = "KeyError"
                   /\ UNCHANGED merged
              ELSE /\ pc' = "loop"
                   /\ merged' = merged + 1
                   /\ UNCHANGED exc
    /\ UNCHANGED << assemblies, args, onPath, call, message, result, idx,
                    outstanding, invocations, runs, output >>

\* get_results, line 129: the loop is over and the dict is returned.
ReturnResults ==
    /\ pc = "loop"
    /\ idx = Len(assemblies)
    /\ pc' = "returned"
    /\ result' = [returned |-> TRUE, value |-> combined_results]
    /\ UNCHANGED << assemblies, args, onPath, call, exc, message, idx,
                    outstanding, invocations, runs, output, merged,
                    combined_results >>

Next ==
    \/ EnterGetResults
    \/ run_stxtyper
    \/ ToolExitsZero
    \/ ToolExitsNonZero
    \/ MergeOutput
    \/ ReturnResults

\* One call of get_results on a batch.
Spec == Init /\ [][Next]_vars

NextCli ==
    \/ check_cli_options
    \/ check_external_programs

\* The host validating its options and its environment.
SpecCli == InitCli /\ [][NextCli]_vars

\* ------------------------------------------------------------------------
\* The vocabulary of the claims
\* ------------------------------------------------------------------------

\* A blank line: empty, or whitespace only.
IsBlankLine(line) == \A j \in 1..Len(line) : line[j] \in Whitespace

\* A comment line: its first character is '#'.
IsCommentLine(line) == Len(line) >= 1 /\ line[1] = "#"

\* A data line: neither blank nor a comment.
IsDataLine(line) == ~IsBlankLine(line) /\ ~IsCommentLine(line)

RECURSIVE DataLinesFrom(_)
\* The data lines of the outputs captured from run i on, in processing order
\* (assembly order, then line order), each with its assembly's path.
DataLinesFrom(i) ==
    IF i > Len(runs) THEN <<>>
    ELSE LET lines == SelectSeq(SplitLines(runs[i].stdout), IsDataLine)
         IN  [j \in 1..Len(lines) |->
                 [path |-> assemblies[i], line |-> lines[j]]]
             \o DataLinesFrom(i + 1)

DataLines == DataLinesFrom(1)

\* The text of a tool output without its blank and comment lines.
WithoutNoise(text) ==
    EndLines(SelectSeq(SplitLines(text), IsDataLine), <<"\n">>)

\* Every captured output has been merged without an exception.
AllMerged == pc \in {"loop", "returned"} /\ merged = Len(runs) /\ merged >= 1

\* The code's record and key of a data line.
StoredRow(d) == RowDict(PathStem(d.path), d.line)

StoredKey(d) == RowKey(PathStem(d.path), StoredRow(d))

\* Data line j is the last one, in processing order, stored under its key.
LastOfItsKey(j) ==
    \A m \in (j + 1)..Len(DataLines) :
        StoredKey(DataLines[m]) # StoredKey(DataLines[j])

\* ------------------------------------------------------------------------
\* C1: the record of a data line
\* ------------------------------------------------------------------------

\* The record C1 describes for a data line: the line's tab-separated fields,
\* empty ones included, under the headers after 'Assembly', and the stem.
ClaimedRow(d) ==
    LET fields == Split(d.line, "\t")
        n == Min(Len(get_headers) - 1, Len(fields))
    IN  [h \in {get_headers[i + 1] : i \in 1..n} \cup {"Assembly"} |->
            IF h = "Assembly" THEN PathStem(d.path)
            ELSE fields[HeaderIndex(h) - 1]]

\* The key C1 describes: "<stem>_<target_contig>_<stx_type>" of that record.
ClaimedKey(d) ==
    LET row == ClaimedRow(d)
    IN  IF {"target_contig", "stx_type"} \subseteq DOMAIN row
        THEN row["Assembly"] \o <<"_">> \o row["target_contig"]
                 \o <<"_">> \o row["stx_type"]
        ELSE <<>>

\* C1 as claimed: once the outputs are merged, every data line has its
\* record (Assembly = stem, i-th tab-separated field under header i+1,
\* empty fields included) stored under "<stem>_<target_contig>_<stx_type>";
\* the dict holds that record unless a later line took the same key.
C1_RecordOfEveryDataLine ==
    AllMerged =>
        \A j \in 1..Len(DataLines) :
            LET d == DataLines[j]
            IN  /\ ClaimedKey(d) \in DOMAIN combined_results
                /\ (\A m \in (j + 1)..Len(DataLines) :
                        ClaimedKey(DataLines[m]) # ClaimedKey(d))
                   => combined_results[ClaimedKey(d)] = ClaimedRow(d)

\* ------------------------------------------------------------------------
\* C2: one entry per key, last write wins
\* ------------------------------------------------------------------------

\* The code's key and record of each data line of a list.
KeyedRows(lines) ==
    [j \in 1..Len(lines) |->
        [key |-> StoredKey(lines[j]), row |-> StoredRow(lines[j])]]

\* The position of the last element of a list of keyed rows that has key k.
LastWithKey(rows, k) ==
    CHOOSE j \in 1..Len(rows) :
        /\ rows[j].key = k
        /\ \A m \in (j + 1)..Len(rows) : rows[m].key # k

\* C2: the mapping get_results returns has exactly one entry per distinct
\* composite key among all data lines of all assemblies, and the entry of a
\* key is the record of the last data line, in processing order, with it.
C2_OneEntryPerKeyLastWins ==
    pc = "returned" =>
        LET rows == KeyedRows(DataLines)
            keys == {rows[j].key : j \in 1..Len(rows)}
        IN  /\ DOMAIN result.value = keys
            /\ Cardinality(DOMAIN result.value) = Cardinality(keys)
            /\ \A k \in keys : result.value[k] = rows[LastWithKey(rows, k)].row

\* Two assemblies gave different records for one key, and the returned
\* mapping has a second key as well.
C2_Witness ==
    /\ pc = "returned"
    /\ Cardinality(DOMAIN result.value) >= 2
    /\ LET lines == DataLines
           rows == KeyedRows(lines)
       IN  \E j, m \in 1..Len(rows) :
              /\ j < m
              /\ lines[j].path # lines[m].path
              /\ rows[j].key = rows[m].key
              /\ rows[j].row # rows[m].row

\* ------------------------------------------------------------------------
\* C3: a non-zero exit ends the batch
\* ------------------------------------------------------------------------

\* Some invocation of the tool has exited non-zero.
SomeRunFailed == \E i \in 1..Len(runs) : runs[i].returncode # 0

\* C3: once the tool has exited non-zero for an assembly, the process is
\* terminated with the fatal message; the failed invocation is the last one
\* (no later assembly is invoked) and get_results has returned nothing.
C3_FailureEndsBatch ==
    SomeRunFailed =>
        /\ pc = "exited"
        /\ exc = "SystemExit"
        /\ message = "Error running STXTyper: "
        /\ result = NoResult
        /\ Len(invocations) = Len(runs)
        /\ \A i \in 1..Len(runs) : runs[i].returncode # 0 => i = Len(runs)

\* The first assembly of a batch of two failed after the tool was invoked
\* once: the second assembly is left.
C3_Witness ==
    /\ pc = "exited"
    /\ SomeRunFailed
    /\ Len(invocations) < Len(assemblies)

\* ------------------------------------------------------------------------
\* C4: blank and comment lines change nothing
\* ------------------------------------------------------------------------

RECURSIVE ResultsWithoutNoise(_, _)
\* get_results run on the same assemblies, each captured output taken without
\* its blank and comment lines: the loop of lines 107-127 from run i on.
ResultsWithoutNoise(i, combined) ==
    IF i > Len(runs) THEN [raised |-> FALSE, combined |-> combined]
    ELSE LET parsed == ParseLines(PathStem(assemblies[i]),
                                  SplitLines(WithoutNoise(runs[i].stdout)),
                                  combined)
         IN  IF parsed.raised THEN parsed
             ELSE ResultsWithoutNoise(i + 1, parsed.combined)

\* C4: get_results ends the same way on the captured outputs as on those
\* outputs without their blank and comment lines: it returns the identical
\* mapping, or raises in both cases.
C4_NoiseLinesChangeNothing ==
    /\ pc = "returned" =>
          LET clean == ResultsWithoutNoise(1, EmptyDict)
          IN  ~clean.raised /\ clean.combined = result.value
    /\ (pc = "raised" /\ exc = "KeyError") =>
          ResultsWithoutNoise(1, EmptyDict).raised

\* A mapping with entries was returned from outputs that held a comment
\* line after a data line and a whitespace-only line between data lines.
C4_Witness ==
    /\ pc = "returned"
    /\ result.value # EmptyDict
    /\ \E i \in 1..Len(runs) : \E l \in 1..Len(SplitLines(runs[i].stdout)) :
          IsCommentLine(SplitLines(runs[i].stdout)[l]) /\ l > 1
    /\ \E i \in 1..Len(runs) : \E l \in 1..Len(SplitLines(runs[i].stdout)) :
          LET line == SplitLines(runs[i].stdout)[l]
          IN  line # <<>> /\ IsBlankLine(line)

\* ------------------------------------------------------------------------
\* C5, C6: the two checks
\* ------------------------------------------------------------------------

\* The last call ended in sys.exit with the given message.
Terminated(msg) == pc = "exited" /\ exc = "SystemExit" /\ message = msg

\* C5 as claimed: with the executable absent, check_external_programs and
\* check_cli_options (for any args) each terminate the process with a fatal
\* message; with it present, check_external_programs returns ['stxtyper']
\* and check_cli_options with a valid thread count returns.
C5_AbsentTerminatesForAnyArgs ==
    /\ (call = "check_external_programs" /\ ~onPath)
          => Terminated("Error: could not find STXTyper executable.")
    /\ (call = "check_cli_options" /\ ~onPath)
          => Terminated("Error: STXTyper is not installed or not in PATH.")
    /\ (call = "check_external_programs" /\ onPath)
          => pc = "idle" /\ result = [returned |-> TRUE, value |-> <<Stxtyper>>]
    /\ (call = "check_cli_options" /\ onPath /\ args.threads >= 1)
          => pc = "idle" /\ result.returned

\* C5, amended: with the executable absent, check_external_programs, and
\* check_cli_options for args whose thread count is at least 1, each
\* terminate the process with a fatal message; with it present,
\* check_external_programs returns ['stxtyper'] and check_cli_options with a
\* valid thread count returns.
C5_AbsentTerminates ==
    /\ (call = "check_external_programs" /\ ~onPath)
          => Terminated("Error: could not find STXTyper executable.")
    /\ (call = "check_cli_options" /\ ~onPath /\ args.threads >= 1)
          => Terminated("Error: STXTyper is not installed or not in PATH.")
    /\ (call = "check_external_programs" /\ onPath)
          => pc = "idle" /\ result = [returned |-> TRUE, value |-> <<Stxtyper>>]
    /\ (call = "check_cli_options" /\ onPath /\ args.threads >= 1)
          => pc = "idle" /\ result.returned

\* check_cli_options was called with a valid thread count and the executable
\* absent, and the process is terminated.
C5_Witness ==
    /\ call = "check_cli_options"
    /\ ~onPath
    /\ args.threads >= 1
    /\ pc = "exited"

\* C6: check_cli_options returns for every thread count >= 1 when the
\* executable resolves, and raises ValueError for every thread count < 1,
\* whether or not the executable is present.
C6_ThreadCountValidated ==
    call = "check_cli_options" =>
        /\ (args.threads >= 1 /\ onPath) =>
              pc = "idle" /\ exc = "none" /\ result.returned
        /\ args.threads < 1 =>
              pc = "raised" /\ exc = "ValueError" /\ ~result.returned

\* check_cli_options raised ValueError for a thread count below 1 although
\* the executable was absent too.
C6_Witness ==
    /\ call = "check_cli_options"
    /\ args.threads < 1
    /\ ~onPath
    /\ exc = "ValueError"

\* ------------------------------------------------------------------------
\* C7: keys and triples
\* ------------------------------------------------------------------------

\* C7 as claimed: two data lines are stored under the same key only if they
\* have the same assembly stem, the same target_contig and the same
\* stx_type.
C7_KeyDeterminesTriple ==
    AllMerged =>
        \A j, m \in 1..Len(DataLines) :
            StoredKey(DataLines[j]) = StoredKey(DataLines[m]) =>
                /\ PathStem(DataLines[j].path) = PathStem(DataLines[m].path)
                /\ StoredRow(DataLines[j])["target_contig"]
                       = StoredRow(DataLines[m])["target_contig"]
                /\ StoredRow(DataLines[j])["stx_type"]
                       = StoredRow(DataLines[m])["stx_type"]

\* ------------------------------------------------------------------------
\* C8: the command line
\* ------------------------------------------------------------------------

\* Text that is a decimal numeral, with an optional minus sign.
IsDecimal(text) ==
    LET digits == IF StartsWith(text, "-") THEN Tail(text) ELSE text
    IN  /\ digits # <<>>
        /\ \A j \in 1..Len(digits) : \E v \in 1..Len(Digits) : Digits[v] = digits[j]

RECURSIVE DigitsValue(_)
DigitsValue(digits) ==
    IF digits = <<>> THEN 0
    ELSE 10 * DigitsValue(SubSeq(digits, 1, Len(digits) - 1))
         + (CHOOSE v \in 0..9 : Digits[v + 1] = digits[Len(digits)])

\* The integer a decimal numeral denotes.
DecimalValue(text) ==
    IF StartsWith(text, "-") THEN 0 - DigitsValue(Tail(text))
    ELSE DigitsValue(text)

\* C8: every invocation so far, one per assembly the loop has started on,
\* was made with exactly ['stxtyper', '-n', <the assembly's path>, '-o',
\* '/dev/stdout', '--threads', <args.threads as decimal text>], followed by
\* '-q' if and only if args.quiet.
C8_CommandLine ==
    /\ Len(invocations) = idx
    /\ \A i \in 1..Len(invocations) :
          LET cmd == invocations[i]
          IN  /\ Len(cmd) = (IF args.quiet THEN 8 ELSE 7)
              /\ cmd[1] = <<"s", "t", "x", "t", "y", "p", "e", "r">>
              /\ cmd[2] = <<"-", "n">>
              /\ cmd[3] = PathStr(assemblies[i])
              /\ cmd[4] = <<"-", "o">>
              /\ cmd[5] = <<"/", "d", "e", "v", "/", "s", "t", "d", "o", "u", "t">>
              /\ cmd[6] = <<"-", "-", "t", "h", "r", "e", "a", "d", "s">>
              /\ IsDecimal(cmd[7])
              /\ DecimalValue(cmd[7]) = args.threads
              /\ args.quiet => cmd[8] = <<"-", "q">>

\* Two invocations were made in quiet mode with a two-digit thread count,
\* the second for a path that Path() normalises.
C8_Witness ==
    /\ Len(invocations) = 2
    /\ args.quiet
    /\ args.threads >= 10
    /\ assemblies[2] # PathStr(assemblies[2])

\* ------------------------------------------------------------------------
\* C9: one invocation at a time, in input order
\* ------------------------------------------------------------------------

\* C9: the tool has been invoked once for each of the first idx assemblies,
\* in input order; at most one invocation is outstanding; while the
\* invocation for an assembly is outstanding, every earlier invocation has
\* exited and its output has been merged; and when get_results returns,
\* every element of the input has been invoked and merged.
C9_OneAtATimeInOrder ==
    /\ outstanding \in {0, 1}
    /\ outstanding = 1 <=> pc = "waiting"
    /\ Len(invocations) = idx
    /\ \A i \in 1..Len(invocations) : invocations[i][3] = PathStr(assemblies[i])
    /\ pc = "waiting" => Len(runs) = idx - 1 /\ merged = idx - 1
    /\ pc = "returned" =>
          /\ Len(invocations) = Len(assemblies)
          /\ Len(runs) = Len(assemblies)
          /\ merged = Len(assemblies)

\* The second invocation of a batch that names the same assembly twice is
\* outstanding, after the first has exited and its output has been merged.
C9_Witness ==
    /\ pc = "waiting"
    /\ idx = 2
    /\ assemblies[1] = assemblies[2]
    /\ merged = 1
    /\ combined_results # EmptyDict

\* ------------------------------------------------------------------------
\* C10: malformed output
\* ------------------------------------------------------------------------

\* C10 as claimed: no data line makes get_results raise, and a data line of
\* n >= 1 tab-separated fields is stored as a record that holds Assembly and
\* exactly the first min(n, 15) headers after it.
C10_MalformedNeverRaises ==
    /\ exc # "KeyError"
    /\ AllMerged =>
          \A j \in 1..Len(DataLines) :
              LET d == DataLines[j]
                  n == Len(Split(d.line, "\t"))
              IN  LastOfItsKey(j) =>
                      DOMAIN combined_results[StoredKey(d)]
                          = {"Assembly"}
                            \cup {get_headers[i + 1] :
                                     i \in 1..Min(n, Len(get_headers) - 1)}

====
